---- MODULE Spec2Model ----
(***************************************************************************)
(* Scale-constrained pitch filtering (test_c_major.py, demo_c_major.py)    *)
(* and the startup dependency check (run_c_major_app.py).                  *)
(*                                                                         *)
(* The filter is the loop of test_pitch_filtering: for every token id of   *)
(* the tokenizer's pitch vocabulary it derives                             *)
(*     pitch_value = token_id - pitch_param_ids[0]                         *)
(*     note_class  = pitch_value % 12                                      *)
(* and keeps the token when note_class is in the scale and the pitch lies  *)
(* in the range.  The scripts hard-code the scale {0,2,4,5,7,9,11} and     *)
(* either the range 24..96 (test) or no range at all (demo); here the      *)
(* scale and the range are inputs, with the code's literals among them.    *)
(***************************************************************************)
EXTENDS Integers, Sequences, FiniteSets, TLC

\* ------------------------------------------------------------------ bounds
MaxLen == 14          \* longest short vocabulary (the full one has NumPitches)
NumCallers == 2       \* concurrent callers in SpecConc
MaxConcLen == 3       \* longest vocabulary in SpecConc

\* ------------------------------------------------- constants of the program
NumPitches == 128
c_major_notes == {0, 2, 4, 5, 7, 9, 11}
RangeLow == 24
RangeHigh == 96
required_packages ==
    <<"numpy", "torch", "gradio", "transformers", "safetensors", "peft", "tqdm">>

\* ------------------------------------------------------------------ inputs
None == <<>>                      \* the range is absent
BaseIds == {0, 5}                 \* id of the first pitch token
Scales == {c_major_notes, {1}, {0, 7}, 0..11}
RangePoints == {0, 5, RangeLow, 80, 90, RangeHigh}
Ranges == {None} \cup (RangePoints \X RangePoints)
ConcRanges == {None, <<0, 0>>, <<0, 5>>, <<5, 0>>}

\* tokenizer.parameter_ids["pitch"]: n consecutive ids, one per semitone
TokenVocabulary(base, n) == [i \in 1..n |-> base + (i - 1)]
\* ids that leave a gap of (stride - 1) between neighbours
SpacedVocabulary(base, n, stride) == [i \in 1..n |-> base + stride * (i - 1)]

VARIABLES
    pitch_param_ids,   \* the shared vocabulary, read by every caller
    scale,             \* set of allowed pitch classes
    range,             \* None or <<low, high>>
    callers,           \* the callers running the filter
    pc,                \* caller -> "loop" | "done"
    pass,              \* caller -> 1 (first filtering) | 2 (filtering its own result)
    input,             \* caller -> the sequence the caller iterates over
    idx,               \* caller -> position of the next token in input
    filtered_ids,      \* caller -> tokens kept so far
    first_result,      \* caller -> result of pass 1 (set when pass 2 starts)
    last               \* caller -> <<pitch_value, allowed>> of the last test, or NoEval

fvars == <<pitch_param_ids, scale, range, callers, pc, pass, input, idx,
           filtered_ids, first_result, last>>

VARIABLES
    import_result,     \* package -> "ok" | "ImportError" | "OtherError": what __import__ does
    found_files,       \* the files the three glob patterns match
    st_pc,             \* position of main() in the startup script
    pkg,               \* position in required_packages
    missing_packages,  \* the list check_dependencies builds
    missing_deps,      \* main's copy of the returned list
    has_models,        \* what check_model_files returned
    dep_status,        \* first status line main printed
    model_status,      \* second status line main printed
    final_report       \* the final recommendation main printed

svars == <<import_result, found_files, st_pc, pkg, missing_packages, missing_deps,
           has_models, dep_status, model_status, final_report>>

vars == <<fvars, svars>>

NoEval == <<>>

\* ------------------------------------------------------------ the filter
\* token_id - pitch_param_ids[0]
PitchValueAbsolute(token_id, ids) == token_id
PitchValue(token_id, ids) == token_id - ids[1]

\* note_class in c_major_notes and 24 <= pitch_value <= 96   (test)
\* (i - pitch_tokens[0]) % 12 in c_major_notes               (demo, no range)
IsAllowedStrict(pitch_value, sc, rg) ==
    LET note_class == pitch_value % 12
    IN  /\ note_class \in sc
        /\ (rg = None \/ (rg[1] <= pitch_value /\ pitch_value < rg[2]))
IsAllowedNoMod(pitch_value, sc, rg) ==
    /\ pitch_value \in sc
    /\ (rg = None \/ (rg[1] <= pitch_value /\ pitch_value <= rg[2]))
IsAllowed(pitch_value, sc, rg) ==
    LET note_class == pitch_value % 12
    IN  /\ note_class \in sc
        /\ (rg = None \/ (rg[1] <= pitch_value /\ pitch_value <= rg[2]))

\* filtered_ids.append(token_id): the list is local to the caller
KeepShared(outs, c, token_id) == [d \in DOMAIN outs |-> Append(outs[d], token_id)]
KeepFront(outs, c, token_id) == [outs EXCEPT ![c] = <<token_id>> \o @]
KeepTwice(outs, c, token_id) == [outs EXCEPT ![c] = Append(Append(@, token_id), token_id)]
Keep(outs, c, token_id) == [outs EXCEPT ![c] = Append(@, token_id)]

\* [i for i in pitch_tokens if (i - pitch_tokens[0]) % 12 in c_major_notes]
FilterTokens(ids, sc, rg) ==
    LET Test(i) == IsAllowed(PitchValue(i, ids), sc, rg)
    IN  SelectSeq(ids, Test)

\* one iteration of  for token_id in pitch_param_ids
FilterStep(c) ==
    /\ pc[c] = "loop"
    /\ idx[c] <= Len(input[c])
    /\ LET token_id == input[c][idx[c]]
           pitch_value == PitchValue(token_id, input[c])
           allowed == IsAllowed(pitch_value, scale, range)
       IN  /\ filtered_ids' = IF allowed THEN Keep(filtered_ids, c, token_id)
                                         ELSE filtered_ids
           /\ last' = [last EXCEPT ![c] = <<pitch_value, allowed>>]
    /\ idx' = [idx EXCEPT ![c] = @ + 1]
    /\ UNCHANGED <<pitch_param_ids, scale, range, callers, pc, pass, input,
                   first_result>>
    /\ UNCHANGED svars

\* the loop is exhausted: filtered_ids is the result
FilterReturn(c) ==
    /\ pc[c] = "loop"
    /\ idx[c] > Len(input[c])
    /\ pc' = [pc EXCEPT ![c] = "done"]
    /\ UNCHANGED <<pitch_param_ids, scale, range, callers, pass, input, idx,
                   filtered_ids, first_result, last>>
    /\ UNCHANGED svars

\* the caller runs the same loop again over the tokens it has just kept
Refilter(c) ==
    /\ pc[c] = "done"
    /\ pass[c] = 1
    /\ first_result' = [first_result EXCEPT ![c] = filtered_ids[c]]
    /\ input' = [input EXCEPT ![c] = filtered_ids[c]]
    /\ filtered_ids' = [filtered_ids EXCEPT ![c] = <<>>]
    /\ idx' = [idx EXCEPT ![c] = 1]
    /\ last' = [last EXCEPT ![c] = NoEval]
    /\ pass' = [pass EXCEPT ![c] = 2]
    /\ pc' = [pc EXCEPT ![c] = "loop"]
    /\ UNCHANGED <<pitch_param_ids, scale, range, callers>>
    /\ UNCHANGED svars

InitCallers(cs) ==
    /\ callers = cs
    /\ pc = [c \in cs |-> "loop"]
    /\ pass = [c \in cs |-> 1]
    /\ input = [c \in cs |-> pitch_param_ids]
    /\ idx = [c \in cs |-> 1]
    /\ filtered_ids = [c \in cs |-> <<>>]
    /\ first_result = [c \in cs |-> <<>>]
    /\ last = [c \in cs |-> NoEval]

\* --------------------------------------------------- the startup script
Packages == {required_packages[i] : i \in 1..Len(required_packages)}
\* paths the patterns **/*.ckpt, **/*.bin and **/*.safetensors can return
ModelFiles == {"model.ckpt", "models/pytorch_model.bin", "adapter_model.bin",
               "lora/adapter_model.safetensors", "adapter_model_v2/model.ckpt"}
\* needle in f: needle occurs somewhere in the path f
Contains(f, needle) ==
    \E i \in 1..(Len(f) - Len(needle) + 1) :
        SubSeq(f, i, i + Len(needle) - 1) = needle
\* "adapter_model" in f
IsAdapter(f) == Contains(f, "adapter_model")

\* if not missing_deps: READY TO GO  else: SETUP NEEDED
FinalRecommendationModels(deps, models) ==
    IF deps = <<>> /\ models THEN "READY TO GO" ELSE "SETUP NEEDED"
FinalRecommendation(deps, models) ==
    IF deps = <<>> THEN "READY TO GO" ELSE "SETUP NEEDED"

\* except ImportError: missing_packages.append(package)
RecordMissing(missing, package) == Append(missing, package)

\* one iteration of  for package in required_packages:  try: __import__(package)
ImportStep ==
    /\ st_pc = "check_dependencies"
    /\ pkg <= Len(required_packages)
    /\ LET package == required_packages[pkg]
       IN  CASE import_result[package] = "ok" ->
                  /\ pkg' = pkg + 1
                  /\ UNCHANGED <<missing_packages, st_pc>>
             [] import_result[package] = "ImportError" ->
                  /\ missing_packages' = RecordMissing(missing_packages, package)
                  /\ pkg' = pkg + 1
                  /\ UNCHANGED st_pc
             [] OTHER ->
                  \* any other exception leaves check_dependencies and main
                  /\ st_pc' = "crashed"
                  /\ UNCHANGED <<pkg, missing_packages>>
    /\ UNCHANGED <<import_result, found_files, missing_deps, has_models,
                   dep_status, model_status, final_report>>
    /\ UNCHANGED fvars

\* return missing_packages;  missing_deps = check_dependencies()
ReturnDependencies ==
    /\ st_pc = "check_dependencies"
    /\ pkg > Len(required_packages)
    /\ missing_deps' = missing_packages
    /\ st_pc' = "check_model_files"
    /\ UNCHANGED <<import_result, found_files, pkg, missing_packages, has_models,
                   dep_status, model_status, final_report>>
    /\ UNCHANGED fvars

\* has_models = check_model_files()
CheckModelFiles ==
    /\ st_pc = "check_model_files"
    /\ LET model_files == {f \in found_files : ~IsAdapter(f)}
       IN  has_models' = (Cardinality(model_files) > 0)
    /\ st_pc' = "status"
    /\ UNCHANGED <<import_result, found_files, pkg, missing_packages, missing_deps,
                   dep_status, model_status, final_report>>
    /\ UNCHANGED fvars

\* the SYSTEM STATUS block, the usage instructions and the final recommendation
ReportStatus ==
    /\ st_pc = "status"
    /\ dep_status' = IF missing_deps # <<>> THEN "MISSING DEPENDENCIES"
                                            ELSE "All dependencies are installed!"
    /\ model_status' = IF ~has_models THEN "NO MODEL FILES FOUND"
                                      ELSE "Model files are available!"
    /\ final_report' = FinalRecommendation(missing_deps, has_models)
    /\ st_pc' = "done"
    /\ UNCHANGED <<import_result, found_files, pkg, missing_packages, missing_deps,
                   has_models>>
    /\ UNCHANGED fvars

\* the startup script has not been started
StartupIdle ==
    /\ import_result = [p \in Packages |-> "ok"]
    /\ found_files = {}
    /\ st_pc = "idle"
    /\ pkg = 1
    /\ missing_packages = <<>>
    /\ missing_deps = <<>>
    /\ has_models = FALSE
    /\ dep_status = "none"
    /\ model_status = "none"
    /\ final_report = "none"

\* no filter is running
FilterIdle ==
    /\ pitch_param_ids = <<>>
    /\ scale = c_major_notes
    /\ range = None
    /\ InitCallers({})

Lengths == (1..MaxLen) \cup {NumPitches}

Init ==
    /\ \E base \in BaseIds, n \in Lengths : pitch_param_ids = TokenVocabulary(base, n)
    /\ scale \in Scales
    /\ range \in Ranges
    /\ InitCallers({1})
    /\ StartupIdle

Next ==
    \/ \E c \in callers : FilterStep(c)
    \/ \E c \in callers : FilterReturn(c)
    \/ \E c \in callers : Refilter(c)

Spec == Init /\ [][Next]_vars

\* several callers filter the same vocabulary at once
InitConc ==
    /\ \E base \in BaseIds, n \in 1..MaxConcLen :
           pitch_param_ids = TokenVocabulary(base, n)
    /\ scale \in Scales
    /\ range \in ConcRanges
    /\ InitCallers(1..NumCallers)
    /\ StartupIdle

SpecConc == InitConc /\ [][Next]_vars

\* vocabularies whose ids need not be consecutive
InitGaps ==
    /\ \E base \in BaseIds, n \in 1..MaxLen, stride \in {1, 2} :
           pitch_param_ids = SpacedVocabulary(base, n, stride)
    /\ scale \in Scales
    /\ range \in Ranges
    /\ InitCallers({1})
    /\ StartupIdle

SpecGaps == InitGaps /\ [][Next]_vars

\* main() of the startup script, in every environment
InitStartup ==
    /\ import_result \in [Packages -> {"ok", "ImportError", "OtherError"}]
    /\ found_files \in SUBSET ModelFiles
    /\ st_pc = "check_dependencies"
    /\ pkg = 1
    /\ missing_packages = <<>>
    /\ missing_deps = <<>>
    /\ has_models = FALSE
    /\ dep_status = "none"
    /\ model_status = "none"
    /\ final_report = "none"
    /\ FilterIdle

NextStartup ==
    \/ ImportStep
    \/ ReturnDependencies
    \/ CheckModelFiles
    \/ ReportStatus

SpecStartup == InitStartup /\ [][NextStartup]_vars

\* ------------------------------------------------------------ properties
Elements(s) == {s[i] : i \in 1..Len(s)}
WellFormed(rg) == rg = None \/ rg[1] <= rg[2]
Malformed(rg) == rg # None /\ rg[1] > rg[2]
Consecutive(ids) == \A i \in 1..Len(ids) : ids[i] = ids[1] + (i - 1)
Finished(c) == pc[c] = "done" /\ pass[c] = 1
Refiltered(c) == pc[c] = "done" /\ pass[c] = 2

RECURSIVE IsSubsequence(_, _)
IsSubsequence(s, t) ==
    IF s = <<>> THEN TRUE
    ELSE IF t = <<>> THEN FALSE
    ELSE IF Head(s) = Head(t) THEN IsSubsequence(Tail(s), Tail(t))
    ELSE IsSubsequence(s, Tail(t))

\* filterVocabulary of the design: the pitch of the token at index i is
\* baseOffset + i, with baseOffset 0 and i counted from 0
IndexFilter(ids, sc, rg) ==
    LET F[n \in 0..Len(ids)] ==
            IF n = 0 THEN <<>>
            ELSE IF IsAllowed(n - 1, sc, rg) THEN Append(F[n - 1], ids[n])
            ELSE F[n - 1]
    IN  F[Len(ids)]

\* C1: whenever the filter has tested a pitch p in 0..127 under a well-formed
\* (or absent) range, its answer is true exactly when p mod 12 is in the scale
\* and the range is absent or low <= p <= high.
C1_IsAllowedMeaning ==
    \A c \in callers :
        (last[c] # NoEval /\ WellFormed(range) /\ last[c][1] \in 0..(NumPitches - 1)) =>
            LET p == last[c][1]
            IN  last[c][2] = ( /\ (p % 12) \in scale
                               /\ (range = None \/ (range[1] <= p /\ p <= range[2])) )

\* a pitch on the upper bound of a present range was tested and allowed
C1_Witness ==
    \E c \in callers :
        /\ last[c] # NoEval
        /\ range # None
        /\ last[c][1] = range[2]
        /\ last[c][2] = TRUE

\* C2: when a caller has filtered the vocabulary, the token at index i (from 0)
\* is in the result exactly when IsAllowed(0 + i, scale, range) holds:
\* soundness and completeness.
C2_SoundAndComplete ==
    \A c \in callers :
        Finished(c) =>
            \A i \in 1..Len(pitch_param_ids) :
                (pitch_param_ids[i] \in Elements(filtered_ids[c]))
                    <=> IsAllowed(i - 1, scale, range)

\* a finished filtering over ids that do not start at 0, which kept some tokens
\* and dropped others
C2_Witness ==
    \E c \in callers :
        /\ Finished(c)
        /\ pitch_param_ids[1] # 0
        /\ filtered_ids[c] # <<>>
        /\ Len(filtered_ids[c]) < Len(pitch_param_ids)

\* C3 (as claimed): filtering the filtered vocabulary again, with the same scale
\* and range, gives the same tokens.
C3_Idempotent ==
    \A c \in callers :
        Refiltered(c) => filtered_ids[c] = first_result[c]

\* C3 (amended): filtering the filtered vocabulary again gives the same tokens
\* when the first filtering kept the first token of the vocabulary, or kept
\* nothing.
C3_IdempotentWhenFirstKept ==
    \A c \in callers :
        ( /\ Refiltered(c)
          /\ (first_result[c] = <<>> \/ first_result[c][1] = pitch_param_ids[1]) )
            => filtered_ids[c] = first_result[c]

\* a second filtering of a result that starts with the vocabulary's first token
\* and is shorter than the vocabulary
C3_Witness ==
    \E c \in callers :
        /\ Refiltered(c)
        /\ first_result[c] # <<>>
        /\ first_result[c][1] = pitch_param_ids[1]
        /\ Len(first_result[c]) < Len(pitch_param_ids)
        /\ Len(first_result[c]) > 1

\* C4 (as claimed): the result is a strict subset of the vocabulary and its size
\* is between 0 and the size of the vocabulary.
C4_StrictSubset ==
    \A c \in callers :
        Finished(c) =>
            /\ Elements(filtered_ids[c]) \subseteq Elements(pitch_param_ids)
            /\ Elements(filtered_ids[c]) # Elements(pitch_param_ids)
            /\ Len(filtered_ids[c]) \in 0..Len(pitch_param_ids)

\* C4 (amended): the result is a subset of the vocabulary, possibly all of it,
\* and its size is between 0 and the size of the vocabulary.
C4_Subset ==
    \A c \in callers :
        Finished(c) =>
            /\ Elements(filtered_ids[c]) \subseteq Elements(pitch_param_ids)
            /\ Len(filtered_ids[c]) \in 0..Len(pitch_param_ids)

\* a finished filtering that kept more than half of the vocabulary, not all
C4_Witness ==
    \E c \in callers :
        /\ Finished(c)
        /\ 2 * Len(filtered_ids[c]) > Len(pitch_param_ids)
        /\ Len(filtered_ids[c]) < Len(pitch_param_ids)

\* C5: the result lists the kept tokens in the order of the vocabulary: it is a
\* subsequence of the vocabulary, ascending, with no token repeated.
C5_OrderPreserved ==
    \A c \in callers :
        Finished(c) =>
            /\ IsSubsequence(filtered_ids[c], pitch_param_ids)
            /\ \A i, j \in 1..Len(filtered_ids[c]) :
                   i < j => filtered_ids[c][i] < filtered_ids[c][j]

\* a finished filtering that kept at least three tokens and skipped one between
C5_Witness ==
    \E c \in callers :
        /\ Finished(c)
        /\ Len(filtered_ids[c]) >= 3
        /\ filtered_ids[c][2] > filtered_ids[c][1] + 1

C7_SeventyFive ==
    \A c \in callers :
        ( /\ Finished(c)
          /\ Len(pitch_param_ids) = NumPitches
          /\ scale = {0, 2, 4, 5, 7, 9, 11}
          /\ range = None )
            => /\ Len(filtered_ids[c]) = 75
               /\ Len(pitch_param_ids) - Len(filtered_ids[c]) = 53

\* the full vocabulary has been filtered with C major and no range
C7_Witness ==
    \E c \in callers :
        /\ Finished(c)
        /\ Len(pitch_param_ids) = NumPitches
        /\ scale = {0, 2, 4, 5, 7, 9, 11}
        /\ range = None
        /\ filtered_ids[c] # <<>>

\* C8: with several callers filtering the same vocabulary at once, under every
\* interleaving each caller's result is the one the filter gives on that
\* caller's input alone, and the shared vocabulary never changes.
C8_ConcurrentCallers ==
    /\ [](\A c \in callers :
             pc[c] = "done" => filtered_ids[c] = FilterTokens(input[c], scale, range))
    /\ [][pitch_param_ids' = pitch_param_ids]_vars

\* two callers are done with a non-empty result while their loops interleaved
C8_Witness ==
    /\ Cardinality(callers) >= 2
    /\ \A c \in callers : Finished(c) /\ Len(filtered_ids[c]) >= 2

\* C9: for a vocabulary of consecutive ids, the filter that derives the pitch
\* from token_id - first_token_id keeps exactly the tokens the index-based
\* filter with baseOffset 0 keeps.
C9_AgreesOnConsecutiveIds ==
    \A c \in callers :
        (Finished(c) /\ Consecutive(pitch_param_ids)) =>
            filtered_ids[c] = IndexFilter(pitch_param_ids, scale, range)

\* consecutive ids that do not start at 0 were filtered and some were kept
C9_Witness ==
    \E c \in callers :
        /\ Finished(c)
        /\ Consecutive(pitch_param_ids)
        /\ Len(pitch_param_ids) > 1
        /\ pitch_param_ids[1] # 0
        /\ filtered_ids[c] # <<>>
        /\ Len(filtered_ids[c]) < Len(pitch_param_ids)

\* C10: check_dependencies returns the required packages whose import raised
\* ImportError, in the order of the required list; main reports READY TO GO
\* exactly when that list is empty and SETUP NEEDED otherwise, whatever
\* check_model_files returned.
C10_StartupReport ==
    LET Failed(p) == import_result[p] = "ImportError"
    IN  /\ st_pc \in {"check_model_files", "status", "done"} =>
               missing_deps = SelectSeq(required_packages, Failed)
        /\ st_pc = "done" =>
               /\ (final_report = "READY TO GO") <=> (missing_deps = <<>>)
               /\ (final_report = "SETUP NEEDED") <=> (missing_deps # <<>>)

\* main reported READY TO GO although no model file was found
C10_Witness ==
    /\ st_pc = "done"
    /\ final_report = "READY TO GO"
    /\ ~has_models
    /\ found_files # {}

====
